---- MODULE Spec2Model ----
(***************************************************************************)
(* A model of scripts/generate_spritesheet.py: for each animation          *)
(* descriptor the script renders the frames of its range to intermediate   *)
(* files, pastes them into a canvas, removes the intermediate files and    *)
(* saves the canvas as <name>.png.                                         *)
(*                                                                         *)
(* The external renderer, the imaging library and the filesystem are       *)
(* modelled by their effect on a map from paths to file contents.  A path  *)
(* is a sequence of characters; a rendered frame is identified by the      *)
(* animation it was rendered for and the scene frame number it shows.      *)
(* Every call into the renderer, the imaging library or the filesystem     *)
(* either takes effect or raises, and a raise ends the run.                *)
(***************************************************************************)
EXTENDS Integers, Sequences, FiniteSets

VARIABLES
    animations,      \* the list of animation descriptors (line 11)
    spriteSize,      \* render.resolution_x (line 6)
    pc,              \* position of the script
    a,               \* number of descriptors the outer for loop has taken
    renderPaths, startFrame, endFrame, name, animationLength, file,
    i, j,            \* next value of the loop variables
    frame_current,   \* bpy.context.scene.frame_current
    filepath,        \* bpy.context.scene.render.filepath
    spriteSheet,     \* the canvas
    imagePath, image,
    fs,              \* the filesystem: path -> content
    fs0,             \* the filesystem when the run started
    log              \* the calls made so far, in order

vars == <<animations, spriteSize, pc, a, renderPaths, startFrame, endFrame,
          name, animationLength, file, i, j, frame_current, filepath,
          spriteSheet, imagePath, image, fs, fs0, log>>

locals == <<renderPaths, startFrame, endFrame, name, animationLength, file>>
config == <<animations, spriteSize, fs0>>

----------------------------------------------------------------------------
(* Bounds of the model *)

MaxAnims == 2        \* longest list of descriptors explored
MaxLen == 2          \* largest endFrame - startFrame explored

----------------------------------------------------------------------------
(* Configuration of the script *)

basePath == <<"G:\\Files\\Media\\Blender\\Spritesheet">>
imageName == <<"g", "u", "y">>
walk == <<"w", "a", "l", "k">>
\* a name that is imageName followed by a digit
guy0 == <<"g", "u", "y", "0">>
Names == {walk, guy0}

\* the list the script is shipped with
SourceAnimations == << [name |-> walk, startFrame |-> 1, endFrame |-> 20] >>

StartFrames == {1, 2}

Descriptors ==
    [name : Names, startFrame : StartFrames, endFrame : 1..(2 + MaxLen)]

\* a descriptor that breaks endFrame >= startFrame
Reversed == [name |-> walk, startFrame |-> 2, endFrame |-> 1]

BoundedDescriptors ==
    {d \in Descriptors : /\ d.endFrame - d.startFrame >= 0
                         /\ d.endFrame - d.startFrame <= MaxLen}
        \cup {Reversed}

RECURSIVE ListsUpTo(_, _)
ListsUpTo(S, n) ==
    IF n = 0 THEN {<< >>}
    ELSE LET shorter == ListsUpTo(S, n - 1)
         IN  shorter \cup {Append(l, d) : l \in {s \in shorter : Len(s) = n - 1}, d \in S}

----------------------------------------------------------------------------
(* Strings and paths *)

Digit(n) == CASE n = 0 -> "0" [] n = 1 -> "1" [] n = 2 -> "2" [] n = 3 -> "3"
              [] n = 4 -> "4" [] n = 5 -> "5" [] n = 6 -> "6" [] n = 7 -> "7"
              [] n = 8 -> "8" [] n = 9 -> "9"

\* str(n) for n >= 0: the decimal digits, most significant first
RECURSIVE str(_)
str(n) == IF n < 10 THEN <<Digit(n)>> ELSE Append(str(n \div 10), Digit(n % 10))

\* os.path.join on the platform of basePath
join(p, q) == p \o <<"\\">> \o q

png == <<".", "p", "n", "g">>

\* ImagePath with indices counted from 1
ImagePathOneBased(prefix, n) == prefix \o str(n + 1) \o png

\* line 33
ImagePath(prefix, n) == prefix \o str(n) \o png

\* line 40
SheetPath(nm) == basePath \o <<"\\">> \o nm \o png

----------------------------------------------------------------------------
(* Files and images *)

NoImage == [kind |-> "none"]

\* the still the renderer produces for scene frame f while animation k runs
Frame(k, f) == [kind |-> "frame", anim |-> k, frame |-> f]

\* a frame file left behind by an earlier, aborted run
Stale == Frame(0, 0)

\* Image.new: a canvas of the given size with nothing pasted
New(w, h) == [kind |-> "sheet", w |-> w, h |-> h, cells |-> << >>]

\* the function f with key k set to v
Put(f, k, v) == [x \in DOMAIN f \cup {k} |-> IF x = k THEN v ELSE f[x]]

\* the function f without key k
Del(f, k) == [x \in DOMAIN f \ {k} |-> f[x]]

\* Paste with the offsets in the other order
PasteSwapped(sheet, im, x, y) == [sheet EXCEPT !.cells = Put(@, <<y, x>>, im)]

\* spriteSheet.paste(im, (x, y))
Paste(sheet, im, x, y) == [sheet EXCEPT !.cells = Put(@, <<x, y>>, im)]

\* bpy.ops.render.render(write_still=True): the still goes to filepath + extension
RenderPath(fp) == fp \o png

\* one call: the animation it was made for, the loop index, the renderer's
\* frame number (render calls), the path and the image it concerned
Event(op, idx, frame, path, img) ==
    [op |-> op, anim |-> a, idx |-> idx, frame |-> frame, path |-> path,
     img |-> img]

----------------------------------------------------------------------------
(* The state before the first statement of the loop *)

SpriteSizes == {2, 64}

\* the prefix of the intermediate frame files (line 22)
FilePrefix == join(basePath, imageName)

\* frame files an earlier, aborted run may have left in the base directory
StaleFiles(idxs) == [p \in {FilePrefix \o str(n) \o png : n \in idxs} |-> Stale]

InitialFilepath == <<"/", "t", "m", "p", "\\">>

Init ==
    /\ \/ animations \in ListsUpTo(BoundedDescriptors, MaxAnims)
       \/ animations = SourceAnimations
    /\ spriteSize \in SpriteSizes
    /\ fs0 \in {StaleFiles(idxs) : idxs \in {{}, {0, 1}}}
    /\ fs = fs0
    /\ pc = "for"
    /\ a = 0
    /\ renderPaths = << >>
    /\ startFrame = 0
    /\ endFrame = 0
    /\ name = << >>
    /\ animationLength = 0
    /\ file = << >>
    /\ i = 0
    /\ j = 0
    /\ frame_current = 1
    /\ filepath = InitialFilepath
    /\ spriteSheet = NoImage
    /\ imagePath = << >>
    /\ image = NoImage
    /\ log = << >>

----------------------------------------------------------------------------
(* An exception: nothing catches it, the process ends *)

\* Raise for a script that catches the exception and carries on
RaiseSwallowed(path) ==
    /\ pc' = pc
    /\ log' = Append(log, Event("raise", 0, 0, path, NoImage))

Raise(path) ==
    /\ pc' = "aborted"
    /\ log' = Append(log, Event("raise", 0, 0, path, NoImage))

----------------------------------------------------------------------------
(* for animation in animations: lines 15-23 *)

\* NextAnimation with renderPaths created once, before the loop
NextAnimationKeepsPaths ==
    /\ pc = "for"
    /\ a < Len(animations)
    /\ a' = a + 1
    /\ startFrame' = animations[a'].startFrame
    /\ endFrame' = animations[a'].endFrame
    /\ name' = animations[a'].name
    /\ animationLength' = endFrame' - startFrame'
    /\ file' = join(basePath, imageName)
    /\ renderPaths' = Append(renderPaths, file')
    /\ i' = 0
    /\ pc' = "render"
    /\ UNCHANGED <<config, j, frame_current, filepath, spriteSheet, imagePath,
                   image, fs, log>>

\* NextAnimation with a length that counts endFrame
NextAnimationInclusive ==
    /\ pc = "for"
    /\ a < Len(animations)
    /\ a' = a + 1
    /\ startFrame' = animations[a'].startFrame
    /\ endFrame' = animations[a'].endFrame
    /\ name' = animations[a'].name
    /\ animationLength' = endFrame' - startFrame' + 1
    /\ file' = join(basePath, imageName)
    /\ renderPaths' = Append(<< >>, file')
    /\ i' = 0
    /\ pc' = "render"
    /\ UNCHANGED <<config, j, frame_current, filepath, spriteSheet, imagePath,
                   image, fs, log>>

NextAnimation ==
    /\ pc = "for"
    /\ a < Len(animations)
    /\ a' = a + 1
    /\ startFrame' = animations[a'].startFrame
    /\ endFrame' = animations[a'].endFrame
    /\ name' = animations[a'].name
    /\ animationLength' = endFrame' - startFrame'
    /\ file' = join(basePath, imageName)
    /\ renderPaths' = Append(<< >>, file')
    /\ i' = 0
    /\ pc' = "render"
    /\ UNCHANGED <<config, j, frame_current, filepath, spriteSheet, imagePath,
                   image, fs, log>>

\* Finish for a script that sets the output path after the loop
FinishSetsPath ==
    /\ pc = "for"
    /\ a >= Len(animations)
    /\ pc' = "done"
    /\ filepath' = join(basePath, imageName)
    /\ UNCHANGED <<config, a, locals, i, j, frame_current, spriteSheet,
                   imagePath, image, fs, log>>

\* the list is exhausted: the script ends
Finish ==
    /\ pc = "for"
    /\ a >= Len(animations)
    /\ pc' = "done"
    /\ UNCHANGED <<config, a, locals, i, j, frame_current, filepath,
                   spriteSheet, imagePath, image, fs, log>>

----------------------------------------------------------------------------
(* for i in range(animationLength): lines 25-28 *)

\* Render with the call made before the renderer's state is set
RenderBeforeSet ==
    /\ pc = "render"
    /\ i < animationLength
    /\ fs' = Put(fs, RenderPath(filepath), Frame(a, frame_current))
    /\ log' = Append(log, Event("render", i, frame_current, filepath,
                                Frame(a, frame_current)))
    /\ frame_current' = startFrame + i
    /\ filepath' = file \o str(i)
    /\ i' = i + 1
    /\ UNCHANGED <<config, pc, a, locals, j, spriteSheet, imagePath, image>>

Render ==
    /\ pc = "render"
    /\ i < animationLength
    /\ frame_current' = startFrame + i
    /\ filepath' = file \o str(i)
    /\ fs' = Put(fs, RenderPath(filepath'), Frame(a, frame_current'))
    /\ log' = Append(log, Event("render", i, frame_current', filepath',
                                Frame(a, frame_current')))
    /\ i' = i + 1
    /\ UNCHANGED <<config, pc, a, locals, j, spriteSheet, imagePath, image>>

\* the renderer raises: its state is set, no file is written
RenderFails ==
    /\ pc = "render"
    /\ i < animationLength
    /\ frame_current' = startFrame + i
    /\ filepath' = file \o str(i)
    /\ Raise(filepath')
    /\ UNCHANGED <<config, a, locals, i, j, spriteSheet, imagePath, image, fs>>

----------------------------------------------------------------------------
(* The paste loops: which cell comes after cell (ii, jj), lines 31-32 *)

HasCell(ii) == ii < Len(renderPaths) /\ animationLength > 0

\* NextCell for an inner loop that stops one frame early
NextCellSkipsLast(ii, jj) ==
    IF jj + 2 < animationLength THEN <<ii, jj + 1>> ELSE <<ii + 1, 0>>

NextCell(ii, jj) == IF jj + 1 < animationLength THEN <<ii, jj + 1>> ELSE <<ii + 1, 0>>

PastePc(ii) == IF HasCell(ii) THEN "open" ELSE "save"

----------------------------------------------------------------------------
(* spriteSheet = Image.new(...): line 30, after the render loop *)

SheetWidth == spriteSize * animationLength
SheetHeight == spriteSize * Len(renderPaths)

NewSpriteSheet ==
    /\ pc = "render"
    /\ i >= animationLength
    /\ SheetWidth >= 0 /\ SheetHeight >= 0
    /\ spriteSheet' = New(SheetWidth, SheetHeight)
    /\ i' = 0
    /\ j' = 0
    /\ pc' = PastePc(0)
    /\ UNCHANGED <<config, a, locals, frame_current, filepath, imagePath,
                   image, fs, log>>

\* Image.new raises ValueError on a negative size
NewSpriteSheetFails ==
    /\ pc = "render"
    /\ i >= animationLength
    /\ SheetWidth < 0 \/ SheetHeight < 0
    /\ Raise(<< >>)
    /\ UNCHANGED <<config, a, locals, i, j, frame_current, filepath,
                   spriteSheet, imagePath, image, fs>>

----------------------------------------------------------------------------
(* The body of the paste loops: lines 33-38 *)

Open ==
    /\ pc = "open"
    /\ imagePath' = ImagePath(renderPaths[i + 1], j)
    /\ imagePath' \in DOMAIN fs
    /\ image' = fs[imagePath']
    /\ log' = Append(log, Event("open", j, 0, imagePath', image'))
    /\ pc' = "paste"
    /\ UNCHANGED <<config, a, locals, i, j, frame_current, filepath,
                   spriteSheet, fs>>

\* the file is missing or cannot be read
OpenFails ==
    /\ pc = "open"
    /\ imagePath' = ImagePath(renderPaths[i + 1], j)
    /\ Raise(imagePath')
    /\ UNCHANGED <<config, a, locals, i, j, frame_current, filepath,
                   spriteSheet, image, fs>>

PasteImage ==
    /\ pc = "paste"
    /\ spriteSheet' = Paste(spriteSheet, image, spriteSize * j, spriteSize * i)
    /\ log' = Append(log, Event("paste", j, 0, imagePath, image))
    /\ pc' = "remove"
    /\ UNCHANGED <<config, a, locals, i, j, frame_current, filepath,
                   imagePath, image, fs>>

\* the image cannot be decoded
PasteFails ==
    /\ pc = "paste"
    /\ Raise(imagePath)
    /\ UNCHANGED <<config, a, locals, i, j, frame_current, filepath,
                   spriteSheet, imagePath, image, fs>>

\* Remove without the call of os.remove
RemoveKeeps ==
    /\ pc = "remove"
    /\ imagePath \in DOMAIN fs
    /\ fs' = fs
    /\ log' = Append(log, Event("remove", j, 0, imagePath, NoImage))
    /\ i' = NextCell(i, j)[1]
    /\ j' = NextCell(i, j)[2]
    /\ pc' = PastePc(i')
    /\ UNCHANGED <<config, a, locals, frame_current, filepath, spriteSheet,
                   imagePath, image>>

Remove ==
    /\ pc = "remove"
    /\ imagePath \in DOMAIN fs
    /\ fs' = Del(fs, imagePath)
    /\ log' = Append(log, Event("remove", j, 0, imagePath, NoImage))
    /\ i' = NextCell(i, j)[1]
    /\ j' = NextCell(i, j)[2]
    /\ pc' = PastePc(i')
    /\ UNCHANGED <<config, a, locals, frame_current, filepath, spriteSheet,
                   imagePath, image>>

\* the file is missing or cannot be removed
RemoveFails ==
    /\ pc = "remove"
    /\ Raise(imagePath)
    /\ UNCHANGED <<config, a, locals, i, j, frame_current, filepath,
                   spriteSheet, imagePath, image, fs>>

----------------------------------------------------------------------------
(* spriteSheet.save(...): line 40 *)

\* Save under imageName instead of the name of the animation
SaveAsImageName ==
    /\ pc = "save"
    /\ fs' = Put(fs, SheetPath(imageName), spriteSheet)
    /\ log' = Append(log, Event("save", 0, 0, SheetPath(imageName), spriteSheet))
    /\ pc' = "for"
    /\ UNCHANGED <<config, a, locals, i, j, frame_current, filepath,
                   spriteSheet, imagePath, image>>

Save ==
    /\ pc = "save"
    /\ fs' = Put(fs, SheetPath(name), spriteSheet)
    /\ log' = Append(log, Event("save", 0, 0, SheetPath(name), spriteSheet))
    /\ pc' = "for"
    /\ UNCHANGED <<config, a, locals, i, j, frame_current, filepath,
                   spriteSheet, imagePath, image>>

\* the file cannot be written
SaveFails ==
    /\ pc = "save"
    /\ Raise(SheetPath(name))
    /\ UNCHANGED <<config, a, locals, i, j, frame_current, filepath,
                   spriteSheet, imagePath, image, fs>>

----------------------------------------------------------------------------

Next ==
    \/ NextAnimation
    \/ Finish
    \/ Render
    \/ RenderFails
    \/ NewSpriteSheet
    \/ NewSpriteSheetFails
    \/ Open
    \/ OpenFails
    \/ PasteImage
    \/ PasteFails
    \/ Remove
    \/ RemoveFails
    \/ Save
    \/ SaveFails

Spec == Init /\ [][Next]_vars

----------------------------------------------------------------------------
(* Vocabulary of the properties *)

\* endFrame - startFrame of the k-th descriptor
AnimLength(k) == animations[k].endFrame - animations[k].startFrame

\* the calls of kind op made for the k-th animation, in order
Calls(op, k) == SelectSeq(log, LAMBDA e : e.op = op /\ e.anim = k)

\* the render phase of the k-th animation is over
Rendered(k) == k < a \/ (k = a /\ pc \in {"open", "paste", "remove", "save", "for", "done"})

\* the canvas of the current animation exists
HasCanvas == a > 0 /\ pc \in {"open", "paste", "remove", "save", "for"}

\* the current animation has just been saved
JustSaved == a > 0 /\ pc = "for"

\* the path of the intermediate file of index n, written out
FramePath(n) ==
    basePath \o <<"\\">> \o <<"g", "u", "y">> \o str(n) \o <<".", "p", "n", "g">>

\* the path of the spritesheet of the k-th descriptor, written out
OutputPath(k) ==
    basePath \o <<"\\">> \o animations[k].name \o <<".", "p", "n", "g">>

----------------------------------------------------------------------------
(* C1: the canvas allocated for an animation with endFrame >= startFrame   *)
(* is spriteSize * length wide and spriteSize * R high, where R is the     *)
(* number of entries of renderPaths, and R is 1 for every animation of     *)
(* the list, the second and later ones included.                           *)
C1_CanvasSize ==
    (HasCanvas /\ animations[a].endFrame >= animations[a].startFrame) =>
        /\ spriteSheet.kind = "sheet"
        /\ spriteSheet.w = spriteSize * AnimLength(a)
        /\ spriteSheet.h = spriteSize * Len(renderPaths)
        /\ Len(renderPaths) = 1
        /\ spriteSheet.h = spriteSize

C1_Witness ==
    /\ a = 2
    /\ pc = "save"
    /\ AnimLength(1) = 1
    /\ AnimLength(2) = 2
    /\ spriteSheet.w = 2 * spriteSize
    /\ spriteSheet.h = spriteSize

----------------------------------------------------------------------------
(* C2: in the spritesheet saved for an animation of length L, the cell at  *)
(* offset (spriteSize * j, 0) holds, for every j in 0 .. L-1, the image    *)
(* the renderer produced for scene frame startFrame + j of that animation, *)
(* and the sheet holds nothing else.                                       *)
C2_SheetCells ==
    JustSaved =>
        /\ OutputPath(a) \in DOMAIN fs
        /\ LET sheet == fs[OutputPath(a)]
               cols == 0 .. (AnimLength(a) - 1)
           IN  /\ sheet.kind = "sheet"
               /\ DOMAIN sheet.cells = {<<spriteSize * jj, 0>> : jj \in cols}
               /\ \A jj \in cols :
                    sheet.cells[<<spriteSize * jj, 0>>]
                        = Frame(a, animations[a].startFrame + jj)

C2_Witness ==
    /\ JustSaved
    /\ a = 2
    /\ AnimLength(1) = 2
    /\ AnimLength(2) = 2
    /\ animations[1].startFrame # animations[2].startFrame
    /\ fs[OutputPath(2)].cells[<<spriteSize, 0>>] = Frame(2, animations[2].startFrame + 1)

----------------------------------------------------------------------------
(* C3: when the run has completed, no file that the renderer wrote during  *)
(* the run is left: every path a render call wrote to is absent, or holds  *)
(* a spritesheet saved to that path afterwards, and the only frame files   *)
(* in the directory are those that were there before the run.              *)
C3_NoFrameFilesLeft ==
    pc = "done" =>
        /\ \A n \in DOMAIN log :
             log[n].op = "render" =>
                 \/ log[n].path \o <<".", "p", "n", "g">> \notin DOMAIN fs
                 \/ fs[log[n].path \o <<".", "p", "n", "g">>].kind = "sheet"
        /\ \A p \in DOMAIN fs :
             fs[p].kind = "frame" => (p \in DOMAIN fs0 /\ fs[p] = fs0[p])

C3_Witness ==
    /\ pc = "done"
    /\ Len(animations) = 2
    /\ AnimLength(1) = 2
    /\ AnimLength(2) = 1
    /\ Len(Calls("render", 1)) = 2
    /\ Len(Calls("remove", 2)) = 1
    /\ FramePath(0) \notin DOMAIN fs

----------------------------------------------------------------------------
(* C4: for a descriptor with endFrame >= startFrame the scene frames       *)
(* rendered are startFrame .. endFrame - 1, each once and in this order,   *)
(* so endFrame is never rendered; the list of the script, with a sprite    *)
(* size of 64, gives 19 renders of frames 1 .. 19 and a walk.png of        *)
(* 1216 x 64.                                                              *)
C4_RenderedFrames ==
    /\ \A k \in 1 .. a :
         (animations[k].endFrame >= animations[k].startFrame) =>
             LET r == Calls("render", k)
             IN  /\ \A n \in DOMAIN r :
                      /\ r[n].frame = animations[k].startFrame + n - 1
                      /\ r[n].frame < animations[k].endFrame
                 /\ Rendered(k) => Len(r) = AnimLength(k)
    /\ (animations = SourceAnimations /\ spriteSize = 64 /\ pc = "done") =>
         /\ Len(Calls("render", 1)) = 19
         /\ {Calls("render", 1)[n].frame : n \in 1 .. 19} = 1 .. 19
         /\ OutputPath(1) \in DOMAIN fs
         /\ fs[OutputPath(1)].w = 1216
         /\ fs[OutputPath(1)].h = 64

C4_Witness ==
    /\ animations = SourceAnimations
    /\ spriteSize = 64
    /\ pc = "done"
    /\ Len(Calls("render", 1)) = 19
    /\ Calls("render", 1)[19].frame = 19

----------------------------------------------------------------------------
(* C5: with an empty list the run ends without a call to the renderer,     *)
(* without an intermediate file and without a spritesheet; the filesystem  *)
(* and the renderer's frame number and output path stay as they were.      *)
C5_NothingDone ==
    animations = << >> =>
        /\ pc \in {"for", "done"}
        /\ log = << >>
        /\ fs = fs0
        /\ frame_current = 1
        /\ filepath = InitialFilepath
        /\ spriteSheet = NoImage

C5_EmptyList == []C5_NothingDone /\ ((animations = << >>) ~> (pc = "done"))

C5_Witness ==
    /\ animations = << >>
    /\ pc = "done"
    /\ fs0 # << >>
    /\ fs = fs0

----------------------------------------------------------------------------
----------------------------------------------------------------------------
(* C7: a call that raises ends the run at that call: nothing follows it,   *)
(* the raising step leaves the files and the canvas as they are, the       *)
(* frame files rendered for the current animation and not yet removed stay *)
(* on disk and the spritesheet of the current animation is not saved.      *)
C7_Aborted ==
    /\ \A n \in DOMAIN log :
         log[n].op = "raise" => (n = Len(log) /\ pc = "aborted")
    /\ pc = "aborted" =>
         /\ log[Len(log)].op = "raise"
         /\ Calls("save", a) = << >>
         /\ \A n \in DOMAIN log :
              (/\ log[n].op = "render"
               /\ log[n].anim = a
               /\ \A m \in (n + 1) .. Len(log) :
                    ~(log[m].op = "remove" /\ log[m].anim = a
                      /\ log[m].path = log[n].path \o <<".", "p", "n", "g">>))
              => /\ log[n].path \o <<".", "p", "n", "g">> \in DOMAIN fs
                 /\ fs[log[n].path \o <<".", "p", "n", "g">>] = log[n].img

C7_RaiseStep ==
    /\ pc' = "aborted" =>
         /\ fs' = fs
         /\ spriteSheet' = spriteSheet
         /\ a' = a
         /\ SubSeq(log', 1, Len(log)) = log
    /\ pc = "aborted" => UNCHANGED vars

C7_AbortsAtFailure == []C7_Aborted /\ [][C7_RaiseStep]_vars

C7_Witness ==
    /\ pc = "aborted"
    /\ a = 2
    /\ Len(Calls("render", 2)) = 2
    /\ Len(Calls("remove", 2)) = 1
    /\ FramePath(1) \in DOMAIN fs
    /\ fs[FramePath(1)] = Frame(2, animations[2].startFrame + 1)

----------------------------------------------------------------------------
(* C8: the n-th render call of an animation (n from 0) has loop index n    *)
(* and finds the renderer at frame startFrame + n with the output path     *)
(* <prefix>n; all render calls of an animation precede the first open of   *)
(* one of its frame files.                                                 *)
C8_RenderOrder ==
    /\ \A k \in 1 .. a :
         LET r == Calls("render", k)
         IN  \A n \in DOMAIN r :
                 /\ r[n].idx = n - 1
                 /\ r[n].frame = animations[k].startFrame + (n - 1)
                 /\ r[n].path = basePath \o <<"\\">> \o <<"g", "u", "y">> \o str(n - 1)
    /\ \A m \in DOMAIN log :
         log[m].op = "open" =>
             /\ Len(SelectSeq(SubSeq(log, 1, m),
                              LAMBDA e : e.op = "render" /\ e.anim = log[m].anim))
                    = AnimLength(log[m].anim)
             /\ \A n \in (m + 1) .. Len(log) :
                    ~(log[n].op = "render" /\ log[n].anim = log[m].anim)
    /\ (log # << >> /\ log[Len(log)].op = "render") =>
         /\ frame_current = log[Len(log)].frame
         /\ filepath = log[Len(log)].path

C8_Witness ==
    /\ a = 2
    /\ pc = "paste"
    /\ AnimLength(1) = 1
    /\ AnimLength(2) = 2
    /\ animations[2].startFrame = 2
    /\ Calls("render", 2)[2].frame = 3
    /\ Calls("render", 2)[2].path = FilePrefix \o <<"1">>

----------------------------------------------------------------------------
(* C9: a frame file is removed right after its paste, which follows its    *)
(* open, and before the next open; a file that is about to be opened       *)
(* exists and holds the frame rendered for the current animation at that   *)
(* index; no file is removed twice or opened after its removal without a   *)
(* render in between.                                                      *)
C9_OpenPasteRemove ==
    /\ pc = "open" =>
         /\ FramePath(j) \in DOMAIN fs
         /\ fs[FramePath(j)] = Frame(a, startFrame + j)
    /\ \A m \in DOMAIN log :
         /\ log[m].op = "remove" =>
              /\ m > 2
              /\ log[m - 1].op = "paste"
              /\ log[m - 2].op = "open"
              /\ log[m - 1].path = log[m].path
              /\ log[m - 2].path = log[m].path
              /\ log[m - 1].anim = log[m].anim
              /\ log[m - 2].anim = log[m].anim
         /\ log[m].op = "open" =>
              /\ m > 1
              /\ log[m - 1].op \in {"render", "remove"}
              /\ log[m - 1].anim = log[m].anim
              /\ log[m].path = FramePath(log[m].idx)
              /\ log[m].img.kind = "frame"
              /\ log[m].img.anim = log[m].anim
         /\ log[m].op \in {"open", "remove"} =>
              \A n \in 1 .. (m - 1) :
                  (log[n].op = "remove" /\ log[n].path = log[m].path) =>
                      \E r \in (n + 1) .. (m - 1) :
                          /\ log[r].op = "render"
                          /\ log[r].path \o <<".", "p", "n", "g">> = log[m].path

C9_Witness ==
    /\ a = 2
    /\ pc = "open"
    /\ j = 1
    /\ AnimLength(1) = 2
    /\ Len(Calls("remove", 1)) = 2
    /\ Len(Calls("remove", 2)) = 1
    /\ FramePath(1) \in DOMAIN fs
    /\ FramePath(0) \notin DOMAIN fs

----------------------------------------------------------------------------
(* C10: the animations of a list use the same intermediate file names, but *)
(* when the render phase of an animation starts no frame file of an        *)
(* earlier animation of the run exists, and every frame pasted into a      *)
(* canvas or saved in a spritesheet was rendered for the animation of that *)
(* canvas, whatever the lengths of the animations.                         *)
C10_NoForeignFrames ==
    /\ \A m \in DOMAIN log :
         /\ log[m].op = "render" => log[m].path = FilePrefix \o str(log[m].idx)
         /\ log[m].op = "paste" => log[m].img = Frame(log[m].anim, log[m].img.frame)
         /\ log[m].op = "save" =>
              \A c \in DOMAIN log[m].img.cells :
                  /\ log[m].img.cells[c].kind = "frame"
                  /\ log[m].img.cells[c].anim = log[m].anim
    /\ (pc = "render" /\ i = 0) =>
         \A p \in DOMAIN fs :
             fs[p].kind = "frame" => fs[p].anim \notin 1 .. (a - 1)
    /\ HasCanvas =>
         \A c \in DOMAIN spriteSheet.cells : spriteSheet.cells[c].anim = a

C10_Witness ==
    /\ a = 2
    /\ pc = "save"
    /\ AnimLength(1) = 2
    /\ AnimLength(2) = 1
    /\ Calls("render", 1)[1].path = Calls("render", 2)[1].path
    /\ spriteSheet.cells[<<0, 0>>] = Frame(2, animations[2].startFrame)
    /\ FramePath(1) \in DOMAIN fs0

----------------------------------------------------------------------------
(* The script runs on: a step that can be taken is taken *)

FairSpec == Spec /\ WF_vars(Next)

====
